---------------------------- MODULE Spec2Model ----------------------------
(***************************************************************************)
(* Model of Buttons<NumberOfButtons> (src/buttonsTemplate.h): the          *)
(* interrupt handler button_ISR, begin / stop, and the consumer accessors  *)
(* clicked / shortReleased / longReleased / doubleClicked / down / up.     *)
(*                                                                         *)
(* The consumer (main loop) and the producer (button_ISR) share            *)
(* _buttons[i].state.  button_ISR cannot be preempted by the main loop, so *)
(* it is one step.  A take accessor is three steps: the volatile read in   *)
(* "state & FLAG", then the volatile load and the volatile store of        *)
(* "state &= ~FLAG"; button_ISR may run between any two of them.           *)
(*                                                                         *)
(* The three periods are build-time macros (#ifndef ... #define) that user *)
(* code may override.  They are given small values that keep the source's  *)
(* order BUTTON_DEBOUNCE_DELAY < DOUBLE_CLICK_DELAY < LONG_RELEASE_DELAY   *)
(* and leave room for every case of each comparison.                       *)
(***************************************************************************)
EXTENDS Integers, FiniteSets, Sequences, TLC

\* template <const uint8_t NumberOfButtons>
NumberOfButtons == 1

BUTTON_DEBOUNCE_DELAY == 2
DOUBLE_CLICK_DELAY == 7
LONG_RELEASE_DELAY == 8

\* delay(10) in begin, scaled like the periods above.
BEGIN_DELAY == 1

\* The millisecond clock stops advancing here (bound of the model).
MaxTime == 13

\* Width of the millisecond clock (uint32_t now, unsigned long timestamps:
\* 32 bits on the Arduino targets), scaled like the periods: the clock
\* counts modulo 2^ClockBits, which is above MaxTime and above every period.
ClockBits == 4
ClockModulus == 2 ^ ClockBits

CLEAR_FLAGS == 0
PRESSED_FLAG == 1
CLICKED_FLAG == 2
SHORT_RELEASED_FLAG == 4
LONG_RELEASED_FLAG == 8
DOUBLE_CLICKED_FLAG == 16

Buttons == 0 .. (NumberOfButtons - 1)

\* The four event flags, each with its take accessor.
TakeFlags == {CLICKED_FLAG, SHORT_RELEASED_FLAG, LONG_RELEASED_FLAG, DOUBLE_CLICKED_FLAG}

VARIABLES
    now,             \* millis()
    raw,             \* raw[i]: the pin of button i reads LOW (physically pressed)
    begun,           \* _begun; the pins are attached to button_ISR exactly when TRUE
    state,           \* _buttons[i].state
    lastChangeTime,  \* _buttons[i].lastChangeTime
    lastClickTime,   \* _buttons[i].lastClickTime
    cons,            \* the consumer's position in an accessor and its locals
    \* ---- history variables (not program state) ----
    owed,            \* owed[i]: flags button_ISR set that no take has returned yet
    pressAt,         \* time of the last press button_ISR accepted since begin or stop, -1 if none
    presses,         \* presses button_ISR accepted since begin or stop, counted up to 2
    sinceFlip,       \* time since the last raw flip button_ISR handled, capped at FlipCap
    isrLast,         \* what the last button_ISR run that saw button i differ from its pin did
    call,            \* the accessor call in progress: state at its read, and whether no button_ISR ran during it
    lastOp,          \* the take call that completed last, while nothing but the next call's read has followed it
    sinceChange,     \* true time elapsed since lastChangeTime was written
    sinceClick,      \* true time elapsed since lastClickTime was written
    flip,            \* direction of the last raw flip button_ISR handled, if no event flag was set before it and no accessor, begin or stop acted since
    \* ---- the registry of pins (varies in PairSpec only) ----
    pin,             \* _buttons[i].pin
    level,           \* level[p]: pin p reads LOW
    attached,        \* the pins button_ISR is attached to
    lastCall,        \* history: the begin or stop call, or button_ISR run, that was the last step
    fresh,           \* history: fresh[i]: the level of button i's pin has not changed since begin sampled it
    prevPins,        \* history: the pin list in use when the last begin restarted the registry
    \* ---- the older template (OldSpec) and ButtonSingle (SingleSpec) ----
    oldStatus,       \* buttonsTemplateOld.h: _buttonStatus[i], without the pin
    oldCall,         \* history: the last call of an operation of the older template, if it was the last step
    single,          \* ButtonSingle: pin, state, lastChangeTime, lastClickTime
    singleCall       \* history: the last accessor call of ButtonSingle, the byte before it and what it returned

vars == <<now, raw, begun, state, lastChangeTime, lastClickTime, cons,
          owed, pressAt, presses, sinceFlip, isrLast, call, lastOp,
          sinceChange, sinceClick, flip,
          pin, level, attached, lastCall, fresh, prevPins,
          oldStatus, oldCall, single, singleCall>>

\* The variables of the older template and of ButtonSingle.
otherVars == <<oldStatus, oldCall, single, singleCall>>

\* The variables only PairSpec changes, and the ones it leaves alone.
pairVars == <<pin, level, attached, lastCall, fresh, prevPins>>
soloVars == <<raw, cons, owed, pressAt, presses, sinceFlip, isrLast, call, lastOp,
              sinceChange, sinceClick, flip>>

progVars == <<now, raw, begun, state, lastChangeTime, lastClickTime, cons>>

----------------------------------------------------------------------------
\* Bit operations on the uint8_t state byte; f is a single-bit mask.

\* (s & f) != 0
HasFlag(s, f) == (s \div f) % 2 = 1

\* s & f
BitAnd(s, f) == IF HasFlag(s, f) THEN f ELSE 0

\* s & ~f
BitClear(s, f) == IF HasFlag(s, f) THEN s - f ELSE s

\* s | f
BitOr(s, f) == IF HasFlag(s, f) THEN s ELSE s + f

\* Variant with a signed difference instead of the unsigned one.
Elapsed_signed(t, since) == t - since

\* now - since, on unsigned long: the difference modulo 2^ClockBits
Elapsed(t, since) == (t - since) % ClockModulus

----------------------------------------------------------------------------
\* down(buttonId): (_buttons[buttonId].state & PRESSED_FLAG) != 0
down(buttonId) == HasFlag(state[buttonId], PRESSED_FLAG)

\* up(buttonId): !down(buttonId)
up(buttonId) == ~down(buttonId)

----------------------------------------------------------------------------
\* button_ISR, for one button i whose pin was sampled as readState
\* (polledDown(i): digitalRead(pin) == LOW) at time now.

\* if (readState != buttonState)
Mismatch(i, readState) == readState # down(i)

\* Variant with >= for >: an edge exactly BUTTON_DEBOUNCE_DELAY after the
\* last change passes.
DebouncePassed_inclusive(i) == Elapsed(now, lastChangeTime[i]) >= BUTTON_DEBOUNCE_DELAY

\* if (now - _buttons[i].lastChangeTime > BUTTON_DEBOUNCE_DELAY)
DebouncePassed(i) == Elapsed(now, lastChangeTime[i]) > BUTTON_DEBOUNCE_DELAY

\* The transition of button i to level readState is accepted.
Accepted(i, readState) == Mismatch(i, readState) /\ DebouncePassed(i)

\* The transition of button i to level readState is rejected as a bounce.
Rejected(i, readState) == Mismatch(i, readState) /\ ~DebouncePassed(i)

\* Variant with >= for >: a press exactly DOUBLE_CLICK_DELAY after the last
\* one is a plain click.
ClickFlag_exclusive(i) ==
    IF Elapsed(now, lastClickTime[i]) >= DOUBLE_CLICK_DELAY
    THEN CLICKED_FLAG
    ELSE DOUBLE_CLICKED_FLAG

\* if (now - _buttons[i].lastClickTime > DOUBLE_CLICK_DELAY)
\*     state = PRESSED_FLAG | CLICKED_FLAG;
\* else state = PRESSED_FLAG | DOUBLE_CLICKED_FLAG;
ClickFlag(i) ==
    IF Elapsed(now, lastClickTime[i]) > DOUBLE_CLICK_DELAY
    THEN CLICKED_FLAG
    ELSE DOUBLE_CLICKED_FLAG

PressState(i) == BitOr(PRESSED_FLAG, ClickFlag(i))

\* Variant that measures the hold from lastChangeTime, the last edge seen.
ReleaseFlag_fromChangeTime(i) ==
    IF Elapsed(now, lastChangeTime[i]) > LONG_RELEASE_DELAY
    THEN LONG_RELEASED_FLAG
    ELSE SHORT_RELEASED_FLAG

\* if (now - _buttons[i].lastClickTime > LONG_RELEASE_DELAY)
\*      state |= LONG_RELEASED_FLAG;
\* else state |= SHORT_RELEASED_FLAG;
ReleaseFlag(i) ==
    IF Elapsed(now, lastClickTime[i]) > LONG_RELEASE_DELAY
    THEN LONG_RELEASED_FLAG
    ELSE SHORT_RELEASED_FLAG

\* Variant that assigns the release flag instead of ORing it in.
ReleaseState_assigned(i) == ReleaseFlag(i)

\* Variant that sets shortReleased on every release and ORs longReleased in.
ReleaseState_alwaysShort(i) ==
    BitOr(BitOr(BitClear(state[i], PRESSED_FLAG), SHORT_RELEASED_FLAG), ReleaseFlag(i))

\* state &= ~PRESSED_FLAG; then the release flag is ORed in
ReleaseState(i) == BitOr(BitClear(state[i], PRESSED_FLAG), ReleaseFlag(i))

\* _buttons[i].state after the loop body for button i
ISR_state(i, readState) ==
    IF Accepted(i, readState)
    THEN IF readState THEN PressState(i) ELSE ReleaseState(i)
    ELSE state[i]

\* Variant that stamps lastClickTime on every accepted transition.
ISR_lastClickTime_everyAccept(i, readState) ==
    IF Accepted(i, readState) THEN now ELSE lastClickTime[i]

\* _buttons[i].lastClickTime after the loop body: written only on an accepted press
ISR_lastClickTime(i, readState) ==
    IF Accepted(i, readState) /\ readState THEN now ELSE lastClickTime[i]

\* Variant that stamps lastChangeTime only when the transition is accepted.
ISR_lastChangeTime_onAccept(i, readState) ==
    IF Accepted(i, readState) THEN now ELSE lastChangeTime[i]

\* Variant that stamps lastChangeTime in every run.
ISR_lastChangeTime_everyRun(i, readState) == now

\* _buttons[i].lastChangeTime after the loop body: written on every mismatch
ISR_lastChangeTime(i, readState) ==
    IF Mismatch(i, readState) THEN now ELSE lastChangeTime[i]

----------------------------------------------------------------------------
\* History of what button_ISR did, for the properties below.

NoCall == [op |-> "none", id |-> 0, flag |-> 0, ret |-> FALSE]
NoLocals == [clean |-> TRUE, pre |-> 0]
Idle == [pc |-> "idle", id |-> 0, flag |-> 0, b |-> 0, v |-> 0]

\* Times since a flip above BUTTON_DEBOUNCE_DELAY are not told apart.
FlipCap == BUTTON_DEBOUNCE_DELAY + 1

ISR_owed(i, readState) ==
    IF Accepted(i, readState)
    THEN IF readState THEN {ClickFlag(i)} ELSE owed[i] \cup {ReleaseFlag(i)}
    ELSE owed[i]

NoRun == [kind |-> "none", lost |-> {}]

\* The flags of button i that were set before the run and are clear after it.
ISR_lost(i, readState) ==
    {f \in TakeFlags : HasFlag(state[i], f) /\ ~HasFlag(ISR_state(i, readState), f)}

ISR_isrLast(i, readState) ==
    IF Mismatch(i, readState)
    THEN [kind |-> IF ~Accepted(i, readState) THEN "rejected"
                   ELSE IF readState THEN "press" ELSE "release",
          lost |-> ISR_lost(i, readState)]
    ELSE isrLast[i]

ISR_pressAt(i, readState) ==
    IF Accepted(i, readState) /\ readState THEN now ELSE pressAt[i]

ISR_presses(i, readState) ==
    IF Accepted(i, readState) /\ readState /\ presses[i] < 2
    THEN presses[i] + 1
    ELSE presses[i]

\* No event flag of button i is set.
NoFlags(i) == \A f \in TakeFlags : ~HasFlag(state[i], f)

\* A raw flip of button i to level readState, as the history remembers it.
FlipSeen(i, readState) ==
    IF NoFlags(i) /\ cons.pc = "idle"
    THEN IF readState THEN "press" ELSE "release"
    ELSE "none"

----------------------------------------------------------------------------
\* The pins of the board: on an Arduino Uno only pins 2 and 3 can have
\* interrupts attached; attachInterrupt does nothing for any other pin.
Pins == {2, 3, 4}
InterruptPins == {2, 3}

\* The template instantiated for two buttons.
NumberOfButtonsPair == 2
PairButtons == 0 .. (NumberOfButtonsPair - 1)

\* begin's argument: a null pointer, or an array of NumberOfButtonsPair pins.
NullPins == << >>
PinLists == {[i \in PairButtons |-> IF i = 0 THEN 2 ELSE 3],
             [i \in PairButtons |-> IF i = 0 THEN 3 ELSE 2],
             [i \in PairButtons |-> IF i = 0 THEN 2 ELSE 4]}

NoPins == [i \in PairButtons |-> 0]
NoRegCall == [op |-> "none", pins |-> NullPins, ret |-> FALSE, n |-> 0]

\* In Spec and WrapSpec the registry has one fixed pin list, attached
\* exactly while begun; raw[i] is the level of button i's pin.
PinsFixed ==
    /\ pin = NoPins
    /\ level = [p \in Pins |-> FALSE]
    /\ attached = {}
    /\ lastCall = NoRegCall
    /\ fresh = [i \in PairButtons |-> FALSE]
    /\ prevPins = NullPins

\* Button() in buttonsTemplateOld.h: every field false or 0.
OldButton == [currentState |-> FALSE, changeFlag |-> FALSE, longClickFlag |-> FALSE,
              lastChangeTime |-> 0]
NoOldCall == [op |-> "none", id |-> 0, ret |-> FALSE]
NoSingleCall == [op |-> "none", pre |-> 0, ret |-> FALSE, seeded |-> FALSE]

\* The older template and ButtonSingle are not used in this specification.
OthersFixed ==
    /\ oldStatus = [i \in PairButtons |-> OldButton]
    /\ oldCall = NoOldCall
    /\ single = [pin |-> 0, state |-> 0, lastChangeTime |-> 0, lastClickTime |-> 0]
    /\ singleCall = NoSingleCall

\* Variant that leaves the constructor's default in the state byte.
SeedState_default(sample) == CLEAR_FLAGS

\* _buttons[i].state = digitalRead(pin) ? CLEAR_FLAGS : PRESSED_FLAG
\* (sample: the pin reads LOW)
SeedState(sample) == IF sample THEN PRESSED_FLAG ELSE CLEAR_FLAGS

\* The loop of button_ISR over the buttons B of the instantiation, with
\* samples r.
ISR_records(B, r) ==
    /\ state' = [i \in B |-> ISR_state(i, r[i])]
    /\ lastClickTime' = [i \in B |-> ISR_lastClickTime(i, r[i])]
    /\ lastChangeTime' = [i \in B |-> ISR_lastChangeTime(i, r[i])]

----------------------------------------------------------------------------
\* State after construction: Button() zeroes every field, _begun = false.
\* The pins may be at either level.
Init ==
    /\ now = 0
    /\ raw \in [Buttons -> BOOLEAN]
    /\ begun = FALSE
    /\ state = [i \in Buttons |-> 0]
    /\ lastChangeTime = [i \in Buttons |-> 0]
    /\ lastClickTime = [i \in Buttons |-> 0]
    /\ cons = Idle
    /\ owed = [i \in Buttons |-> {}]
    /\ pressAt = [i \in Buttons |-> -1]
    /\ presses = [i \in Buttons |-> 0]
    /\ sinceFlip = [i \in Buttons |-> FlipCap]
    /\ isrLast = [i \in Buttons |-> NoRun]
    /\ call = NoLocals
    /\ lastOp = NoCall
    /\ flip = [i \in Buttons |-> "none"]
    /\ sinceChange = [i \in Buttons |-> 0]
    /\ sinceClick = [i \in Buttons |-> 0]
    /\ PinsFixed
    /\ OthersFixed

\* The millisecond clock advances.
Tick ==
    /\ now < MaxTime
    /\ now' = now + 1
    /\ sinceFlip' = [i \in Buttons |-> IF sinceFlip[i] < FlipCap THEN sinceFlip[i] + 1 ELSE FlipCap]
    /\ sinceChange' = [i \in Buttons |-> sinceChange[i] + 1]
    /\ sinceClick' = [i \in Buttons |-> sinceClick[i] + 1]
    /\ UNCHANGED <<raw, begun, state, lastChangeTime, lastClickTime, cons,
                   owed, pressAt, presses, isrLast, call, lastOp, flip>>
    /\ UNCHANGED pairVars
    /\ UNCHANGED otherVars

\* button_ISR(): samples every pin (levels r) and updates every button.
button_ISR(r) ==
    /\ ISR_records(Buttons, r)
    /\ owed' = [i \in Buttons |-> ISR_owed(i, r[i])]
    /\ pressAt' = [i \in Buttons |-> ISR_pressAt(i, r[i])]
    /\ presses' = [i \in Buttons |-> ISR_presses(i, r[i])]
    /\ isrLast' = [i \in Buttons |-> ISR_isrLast(i, r[i])]
    /\ sinceChange' = [i \in Buttons |-> IF Mismatch(i, r[i]) THEN 0 ELSE sinceChange[i]]
    /\ sinceClick' = [i \in Buttons |-> IF Accepted(i, r[i]) /\ r[i] THEN 0 ELSE sinceClick[i]]
    /\ call' = IF cons.pc = "idle" THEN call ELSE [clean |-> FALSE, pre |-> 0]
    /\ lastOp' = NoCall

\* The raw level of button p's pin changes.  While the pins are attached
\* (attachInterrupt(..., CHANGE)) the edge runs button_ISR, as one step.
RawEdge(p) ==
    /\ raw' = [raw EXCEPT ![p] = ~raw[p]]
    /\ IF begun
       THEN /\ button_ISR(raw')
            /\ sinceFlip' = [sinceFlip EXCEPT ![p] = 0]
            /\ flip' = [flip EXCEPT ![p] = FlipSeen(p, raw'[p])]
       ELSE UNCHANGED <<state, lastChangeTime, lastClickTime,
                        owed, pressAt, presses, sinceFlip, isrLast, call, lastOp, flip,
                   sinceChange, sinceClick>>
    /\ UNCHANGED <<now, begun, cons>>
    /\ UNCHANGED pairVars
    /\ UNCHANGED otherVars

\* begin(buttonPins) with a non-null pin list: stop() if begun, pinMode,
\* delay(10), attachInterrupt, then every button's state is seeded from
\* digitalRead and both timestamps are set to millis().
begin ==
    /\ cons.pc = "idle"
    /\ now + BEGIN_DELAY <= MaxTime
    /\ now' = now + BEGIN_DELAY
    /\ state' = [i \in Buttons |-> SeedState(raw[i])]
    /\ lastChangeTime' = [i \in Buttons |-> now']
    /\ lastClickTime' = [i \in Buttons |-> now']
    /\ begun' = TRUE
    /\ owed' = [i \in Buttons |-> {}]
    /\ pressAt' = [i \in Buttons |-> -1]
    /\ presses' = [i \in Buttons |-> 0]
    /\ sinceFlip' = [i \in Buttons |-> FlipCap]
    /\ isrLast' = [i \in Buttons |-> NoRun]
    /\ lastOp' = NoCall
    /\ flip' = [i \in Buttons |-> "none"]
    /\ sinceChange' = [i \in Buttons |-> 0]
    /\ sinceClick' = [i \in Buttons |-> 0]
    /\ UNCHANGED <<raw, cons, call>>
    /\ UNCHANGED pairVars
    /\ UNCHANGED otherVars

\* stop(): nothing if not begun; else detachInterrupt every pin, _begun = false.
stop ==
    /\ cons.pc = "idle"
    /\ begun' = FALSE
    /\ pressAt' = [i \in Buttons |-> -1]
    /\ presses' = [i \in Buttons |-> 0]
    /\ sinceFlip' = [i \in Buttons |-> FlipCap]
    /\ isrLast' = [i \in Buttons |-> NoRun]
    /\ lastOp' = NoCall
    /\ flip' = [i \in Buttons |-> "none"]
    /\ UNCHANGED <<now, raw, state, lastChangeTime, lastClickTime, cons, owed, call,
                   sinceChange, sinceClick>>
    /\ UNCHANGED pairVars
    /\ UNCHANGED otherVars

----------------------------------------------------------------------------
\* The take accessors, for flag f of button buttonId:
\*     uint8_t b = _buttons[buttonId].state & f;
\*     _buttons[buttonId].state &= ~f;
\*     return b != 0;

\* uint8_t b = state & f            (volatile read)
TakeRead(buttonId, f) ==
    /\ cons.pc = "idle"
    /\ cons' = [pc |-> "read", id |-> buttonId, flag |-> f,
                b |-> BitAnd(state[buttonId], f), v |-> 0]
    /\ call' = [clean |-> TRUE, pre |-> state[buttonId]]
    /\ owed' = IF HasFlag(state[buttonId], f)
               THEN [owed EXCEPT ![buttonId] = @ \ {f}]
               ELSE owed
    /\ lastOp' = IF lastOp.op = "take" /\ lastOp.id = buttonId /\ lastOp.flag = f
                 THEN lastOp
                 ELSE NoCall
    /\ flip' = [flip EXCEPT ![buttonId] = "none"]
    /\ UNCHANGED <<now, raw, begun, state, lastChangeTime, lastClickTime,
                   pressAt, presses, sinceFlip, isrLast, sinceChange, sinceClick>>
    /\ UNCHANGED pairVars
    /\ UNCHANGED otherVars

\* state &= ~f, first half          (volatile load)
TakeLoad(buttonId, f) ==
    /\ cons.pc = "read" /\ cons.id = buttonId /\ cons.flag = f
    /\ cons' = [cons EXCEPT !.pc = "loaded", !.v = state[buttonId]]
    /\ lastOp' = NoCall
    /\ UNCHANGED <<now, raw, begun, state, lastChangeTime, lastClickTime,
                   owed, pressAt, presses, sinceFlip, isrLast, call, flip,
                   sinceChange, sinceClick>>
    /\ UNCHANGED pairVars
    /\ UNCHANGED otherVars

\* Variant with the complement dropped: state &= f.
StoredByte_noComplement(v, f) == BitAnd(v, f)

\* The byte the accessor stores: the loaded byte with f masked out.
StoredByte(v, f) == BitClear(v, f)

\* state &= ~f, second half         (volatile store); return b != 0
TakeStore(buttonId, f) ==
    /\ cons.pc = "loaded" /\ cons.id = buttonId /\ cons.flag = f
    /\ state' = [state EXCEPT ![buttonId] = StoredByte(cons.v, f)]
    /\ cons' = Idle
    /\ lastOp' = IF call.clean
               THEN [op |-> "take", id |-> buttonId, flag |-> f, ret |-> (cons.b # 0)]
               ELSE NoCall
    /\ call' = NoLocals
    /\ UNCHANGED <<now, raw, begun, lastChangeTime, lastClickTime,
                   owed, pressAt, presses, sinceFlip, isrLast, flip,
                   sinceChange, sinceClick>>
    /\ UNCHANGED pairVars
    /\ UNCHANGED otherVars

Take(buttonId, f) ==
    \/ TakeRead(buttonId, f)
    \/ TakeLoad(buttonId, f)
    \/ TakeStore(buttonId, f)

clicked(buttonId) == Take(buttonId, CLICKED_FLAG)
shortReleased(buttonId) == Take(buttonId, SHORT_RELEASED_FLAG)
longReleased(buttonId) == Take(buttonId, LONG_RELEASED_FLAG)
doubleClicked(buttonId) == Take(buttonId, DOUBLE_CLICKED_FLAG)

\* A call of down(buttonId) or up(buttonId): one volatile read, no write.
ReadDown(buttonId) ==
    /\ cons.pc = "idle"
    /\ lastOp' = NoCall
    /\ UNCHANGED <<now, raw, begun, state, lastChangeTime, lastClickTime, cons,
                   owed, pressAt, presses, sinceFlip, isrLast, call, flip,
                   sinceChange, sinceClick>>
    /\ UNCHANGED pairVars
    /\ UNCHANGED otherVars

ReadUp(buttonId) ==
    /\ cons.pc = "idle"
    /\ lastOp' = NoCall
    /\ UNCHANGED <<now, raw, begun, state, lastChangeTime, lastClickTime, cons,
                   owed, pressAt, presses, sinceFlip, isrLast, call, flip,
                   sinceChange, sinceClick>>
    /\ UNCHANGED pairVars
    /\ UNCHANGED otherVars

----------------------------------------------------------------------------
Next ==
    \/ Tick
    \/ \E p \in Buttons : RawEdge(p)
    \/ begin
    \/ stop
    \/ \E i \in Buttons : clicked(i)
    \/ \E i \in Buttons : shortReleased(i)
    \/ \E i \in Buttons : longReleased(i)
    \/ \E i \in Buttons : doubleClicked(i)
    \/ \E i \in Buttons : ReadDown(i)
    \/ \E i \in Buttons : ReadUp(i)

Spec == Init /\ [][Next]_vars

----------------------------------------------------------------------------
\* Steps of the model, recognised from the variables they change.

\* A run of button_ISR: a raw edge while the pins are attached.
IsrRun == begun /\ raw' # raw

\* A step of a consumer accessor.
ConsumerStep == cons' # cons

\* The store that completes a take accessor call.
StoreStep == cons.pc = "loaded" /\ cons'.pc = "idle"

\* The read that starts a take accessor call.
ReadStep == cons.pc = "idle" /\ cons'.pc = "read"

----------------------------------------------------------------------------
\* C1: no flag set by button_ISR is dropped: whenever the consumer is
\* between accessor calls, every flag that a button_ISR run has set, that
\* no take call has read as true and that button_ISR itself has not
\* replaced by a later press is still set in the state byte, so the next
\* call of its take accessor returns true.
C1_NoFlagDropped ==
    cons.pc = "idle" =>
        \A i \in Buttons : \A f \in owed[i] : HasFlag(state[i], f)

\* C2: no step of a consumer accessor changes a button's PRESSED bit, its
\* lastChangeTime or its lastClickTime.
C2_ConsumerLeavesProducerFields ==
    [][ConsumerStep =>
        /\ \A i \in Buttons : down(i)' = down(i)
        /\ lastChangeTime' = lastChangeTime
        /\ lastClickTime' = lastClickTime]_vars

\* C3: a take call during which button_ISR does not run returns the prior
\* value of its flag and stores the prior byte with only that flag bit
\* cleared; and a call of the same accessor that directly follows a
\* completed call, with no button_ISR run and no begin since that call
\* started, reads its flag as clear, so it returns false.
C3_TakeTwice ==
    [][/\ (StoreStep /\ call.clean) =>
            /\ (cons.b # 0) = HasFlag(call.pre, cons.flag)
            /\ state'[cons.id] = BitClear(call.pre, cons.flag)
            /\ \A j \in Buttons \ {cons.id} : state'[j] = state[j]
       /\ (ReadStep /\ lastOp' # NoCall) => cons'.b = 0]_vars

\* C3 witness: the second of two clicked() calls in a row has read false
\* right after the first returned true.
C3_Witness ==
    /\ cons.pc = "read" /\ cons.flag = CLICKED_FLAG /\ cons.b = 0
    /\ call.clean
    /\ lastOp = [op |-> "take", id |-> cons.id, flag |-> CLICKED_FLAG, ret |-> TRUE]

----------------------------------------------------------------------------
\* The cases of a button_ISR run for button i, stated on the variables
\* before the run and the level the run samples (raw' is the level after
\* the edge that started the run).

PressAccepted(i) ==
    /\ IsrRun
    /\ raw'[i] /\ ~down(i)
    /\ now - lastChangeTime[i] > BUTTON_DEBOUNCE_DELAY

ReleaseAccepted(i) ==
    /\ IsrRun
    /\ ~raw'[i] /\ down(i)
    /\ now - lastChangeTime[i] > BUTTON_DEBOUNCE_DELAY

\* Flag f of button i is clear before the step and set after it.
Sets(i, f) == ~HasFlag(state[i], f) /\ HasFlag(state'[i], f)

\* Flag f of button i is set after the step.
SetAfter(i, f) == HasFlag(state'[i], f)

----------------------------------------------------------------------------
\* C4: every press button_ISR accepts leaves clicked set; when the press is
\* within DOUBLE_CLICK_DELAY of the previous accepted press, doubleClicked
\* is set as well as clicked.
C4_PressSetsClicked ==
    [][\A i \in Buttons : PressAccepted(i) =>
        /\ SetAfter(i, CLICKED_FLAG)
        /\ (pressAt[i] >= 0 /\ now - pressAt[i] <= DOUBLE_CLICK_DELAY)
               => SetAfter(i, DOUBLE_CLICKED_FLAG)]_vars

C6_DoubleClickWindow ==
    [][\A i \in Buttons : (PressAccepted(i) /\ pressAt[i] >= 0) =>
        (SetAfter(i, DOUBLE_CLICKED_FLAG) <=> now - pressAt[i] <= DOUBLE_CLICK_DELAY)]_vars

\* C6 witness: the second accepted press has just set doubleClicked.
C6_Witness ==
    \E i \in Buttons :
        /\ begun /\ isrLast[i].kind = "press" /\ presses[i] = 2
        /\ pressAt[i] = now /\ lastClickTime[i] = now
        /\ HasFlag(state[i], DOUBLE_CLICKED_FLAG)

\* C7: a release accepted exactly LONG_RELEASE_DELAY after the accepted
\* press (now - lastClickTime = LONG_RELEASE_DELAY) sets longReleased and
\* does not set shortReleased; one accepted LONG_RELEASE_DELAY - 1 after it
\* sets shortReleased and not longReleased.
C7_LongReleaseBoundary ==
    [][\A i \in Buttons : (ReleaseAccepted(i) /\ pressAt[i] = lastClickTime[i]) =>
        /\ (now - lastClickTime[i] = LONG_RELEASE_DELAY) =>
               /\ SetAfter(i, LONG_RELEASED_FLAG)
               /\ ~Sets(i, SHORT_RELEASED_FLAG)
        /\ (now - lastClickTime[i] = LONG_RELEASE_DELAY - 1) =>
               /\ SetAfter(i, SHORT_RELEASED_FLAG)
               /\ ~Sets(i, LONG_RELEASED_FLAG)]_vars

C9_BounceSuppressed ==
    [][IsrRun =>
        \A i \in Buttons :
            (raw'[i] # raw[i] /\ sinceFlip[i] < BUTTON_DEBOUNCE_DELAY) =>
                /\ down(i)' = down(i)
                /\ lastChangeTime'[i] = now]_vars

----------------------------------------------------------------------------
\* A step of begin: the only step that moves the clock and sets
\* lastChangeTime to the new time.
BeginStep == now' # now /\ \A i \in Buttons : lastChangeTime'[i] = now'

\* C11: starting from a button with no event flag set, one raw flip followed
\* by no further flip for more than BUTTON_DEBOUNCE_DELAY (and no accessor
\* call, begin or stop meanwhile) leaves the gesture class of the flip's
\* direction set: after a flip to pressed, clicked is set and neither
\* release flag is; after a flip to released, exactly one of shortReleased
\* and longReleased is set and clicked is not.
C11_OneFlipOneGesture ==
    \A i \in Buttons :
        (begun /\ flip[i] # "none" /\ sinceFlip[i] > BUTTON_DEBOUNCE_DELAY) =>
            IF flip[i] = "press"
            THEN /\ HasFlag(state[i], CLICKED_FLAG)
                 /\ ~HasFlag(state[i], SHORT_RELEASED_FLAG)
                 /\ ~HasFlag(state[i], LONG_RELEASED_FLAG)
            ELSE /\ HasFlag(state[i], SHORT_RELEASED_FLAG)
                        # HasFlag(state[i], LONG_RELEASED_FLAG)
                 /\ ~HasFlag(state[i], CLICKED_FLAG)

\* C16: outside of begin, the PRESSED bit of a button changes only in a
\* button_ISR run in which the raw sample differs from the PRESSED bit and
\* now - lastChangeTime > BUTTON_DEBOUNCE_DELAY, with the lastChangeTime
\* held before the run.
C16_PressedChangesOnlyInAcceptingRun ==
    [][\A i \in Buttons :
        (down(i)' # down(i) /\ ~BeginStep) =>
            /\ IsrRun
            /\ raw'[i] # down(i)
            /\ now - lastChangeTime[i] > BUTTON_DEBOUNCE_DELAY]_vars

\* A button_ISR run that finds button i differing from its pin no more than
\* BUTTON_DEBOUNCE_DELAY after lastChangeTime.
TransitionRejected(i) ==
    /\ IsrRun
    /\ raw'[i] # down(i)
    /\ now - lastChangeTime[i] <= BUTTON_DEBOUNCE_DELAY

\* C17: a button_ISR run that rejects a transition of button i sets its
\* lastChangeTime to now and changes nothing else of the button: the
\* PRESSED bit, the four event flags and lastClickTime keep their values.
C17_RejectedRefreshesOnlyChangeTime ==
    [][\A i \in Buttons : TransitionRejected(i) =>
        /\ lastChangeTime'[i] = now
        /\ state'[i] = state[i]
        /\ lastClickTime'[i] = lastClickTime[i]]_vars

\* C17 witness: a transition has just been rejected while an event flag
\* was set, later than the stamp it compared with.
C17_Witness ==
    \E i \in Buttons :
        /\ begun /\ isrLast[i].kind = "rejected" /\ sinceFlip[i] = 0
        /\ lastChangeTime[i] = now /\ lastClickTime[i] < now
        /\ raw[i] # down(i)
        /\ ~NoFlags(i)

\* C19: once begin has returned, lastClickTime of a button changes only in
\* a button_ISR run that accepts a press of that button, which sets it to
\* now; no accepted release, rejected transition, accessor step, stop or
\* clock tick changes it.
C19_ClickTimeOnlyOnPress ==
    [][\A i \in Buttons :
        /\ (lastClickTime'[i] # lastClickTime[i] /\ ~BeginStep) => PressAccepted(i)
        /\ PressAccepted(i) => lastClickTime'[i] = now]_vars

\* C19 witness: a release has just been accepted and lastClickTime still
\* holds the time of the accepted press before it.
C19_Witness ==
    \E i \in Buttons :
        /\ begun /\ isrLast[i].kind = "release" /\ sinceFlip[i] = 0
        /\ lastChangeTime[i] = now
        /\ pressAt[i] >= 0 /\ pressAt[i] < now /\ lastClickTime[i] = pressAt[i]

----------------------------------------------------------------------------
\* The clock near its wrap.  begin has just returned at an arbitrary clock
\* value: every button is seeded from its pin and both timestamps are the
\* clock.  The clock then counts modulo 2^ClockBits while edges run
\* button_ISR.

WrapInit ==
    /\ now \in 0 .. (ClockModulus - 1)
    /\ raw \in [Buttons -> BOOLEAN]
    /\ begun = TRUE
    /\ state = [i \in Buttons |-> SeedState(raw[i])]
    /\ lastChangeTime = [i \in Buttons |-> now]
    /\ lastClickTime = [i \in Buttons |-> now]
    /\ cons = Idle
    /\ owed = [i \in Buttons |-> {}]
    /\ pressAt = [i \in Buttons |-> -1]
    /\ presses = [i \in Buttons |-> 0]
    /\ sinceFlip = [i \in Buttons |-> FlipCap]
    /\ isrLast = [i \in Buttons |-> NoRun]
    /\ call = NoLocals
    /\ lastOp = NoCall
    /\ flip = [i \in Buttons |-> "none"]
    /\ sinceChange = [i \in Buttons |-> 0]
    /\ sinceClick = [i \in Buttons |-> 0]
    /\ PinsFixed
    /\ OthersFixed

\* millis() advances and wraps to 0 after 2^ClockBits - 1.  The true time
\* since either timestamp stays below 2^ClockBits.
TickWrap ==
    /\ \A i \in Buttons : sinceChange[i] < ClockModulus - 1 /\ sinceClick[i] < ClockModulus - 1
    /\ now' = (now + 1) % ClockModulus
    /\ sinceFlip' = [i \in Buttons |-> IF sinceFlip[i] < FlipCap THEN sinceFlip[i] + 1 ELSE FlipCap]
    /\ sinceChange' = [i \in Buttons |-> sinceChange[i] + 1]
    /\ sinceClick' = [i \in Buttons |-> sinceClick[i] + 1]
    /\ UNCHANGED <<raw, begun, state, lastChangeTime, lastClickTime, cons,
                   owed, pressAt, presses, isrLast, call, lastOp, flip>>
    /\ UNCHANGED pairVars
    /\ UNCHANGED otherVars

WrapNext ==
    \/ TickWrap
    \/ \E p \in Buttons : RawEdge(p)

WrapSpec == WrapInit /\ [][WrapNext]_vars

\* C15: every decision of a button_ISR run is the decision for the true
\* elapsed time, whether or not the clock wrapped since the timestamp was
\* stored: a differing sample is accepted exactly when the true time since
\* lastChangeTime exceeds BUTTON_DEBOUNCE_DELAY; an accepted press sets
\* clicked exactly when the true time since lastClickTime exceeds
\* DOUBLE_CLICK_DELAY and doubleClicked otherwise; an accepted release sets
\* longReleased exactly when it exceeds LONG_RELEASE_DELAY and shortReleased
\* otherwise.
C15_WrapTolerant ==
    [][IsrRun =>
        \A i \in Buttons : raw'[i] # down(i) =>
            /\ (down(i)' # down(i)) <=> (sinceChange[i] > BUTTON_DEBOUNCE_DELAY)
            /\ (raw'[i] /\ down(i)') =>
                   /\ HasFlag(state'[i], CLICKED_FLAG) <=> (sinceClick[i] > DOUBLE_CLICK_DELAY)
                   /\ HasFlag(state'[i], DOUBLE_CLICKED_FLAG) <=> (sinceClick[i] <= DOUBLE_CLICK_DELAY)
            /\ (~raw'[i] /\ ~down(i)') =>
                   /\ HasFlag(state'[i], LONG_RELEASED_FLAG) <=> (sinceClick[i] > LONG_RELEASE_DELAY)
                   /\ HasFlag(state'[i], SHORT_RELEASED_FLAG) <=> (sinceClick[i] <= LONG_RELEASE_DELAY)]_vars

\* C15 witness: a release has just been accepted as long, after the clock
\* wrapped between the press that stamped lastClickTime and the release.
C15_Witness ==
    \E i \in Buttons :
        /\ begun /\ isrLast[i].kind = "release" /\ sinceFlip[i] = 0
        /\ lastChangeTime[i] = now /\ presses[i] > 0
        /\ lastClickTime[i] > now
        /\ sinceClick[i] > LONG_RELEASE_DELAY
        /\ HasFlag(state[i], LONG_RELEASED_FLAG)

----------------------------------------------------------------------------
\* The registry of two buttons: begin with a pin list or a null pointer,
\* stop, the clock, and the levels of the pins.  An edge on an attached pin
\* runs button_ISR, which samples the pin of every button.  begin is one
\* step, taken at the moment it samples the pins: whatever button_ISR does
\* between attachInterrupt and that moment is overwritten by the seeding.

\* The clock of PairSpec stops advancing here.
PairMaxTime == 6

\* polledDown(buttonId): digitalRead(_buttons[buttonId].pin) == LOW
polledDown(buttonId) == level[pin[buttonId]]

\* The pins of the current list: the ones stop() passes to detachInterrupt.
BoundPins == {pin[i] : i \in PairButtons}

\* The pins of a list that attachInterrupt can bind.
Bindable(buttonPins) == {buttonPins[i] : i \in PairButtons} \cap InterruptPins

\* The record of a call, counting up to two equal calls in a row.
Called(op, pins, ret) ==
    [op |-> op, pins |-> pins, ret |-> ret,
     n |-> IF lastCall.op = op /\ lastCall.pins = pins THEN 2 ELSE 1]

PairInit ==
    /\ now = 0
    /\ begun = FALSE
    /\ state = [i \in PairButtons |-> 0]
    /\ lastChangeTime = [i \in PairButtons |-> 0]
    /\ lastClickTime = [i \in PairButtons |-> 0]
    /\ pin = NoPins
    /\ level \in [Pins -> BOOLEAN]
    /\ attached = {}
    /\ lastCall = NoRegCall
    /\ fresh = [i \in PairButtons |-> FALSE]
    /\ prevPins = NullPins
    /\ OthersFixed
    /\ raw = [i \in Buttons |-> FALSE]
    /\ cons = Idle
    /\ owed = [i \in Buttons |-> {}]
    /\ pressAt = [i \in Buttons |-> -1]
    /\ presses = [i \in Buttons |-> 0]
    /\ sinceFlip = [i \in Buttons |-> FlipCap]
    /\ isrLast = [i \in Buttons |-> NoRun]
    /\ call = NoLocals
    /\ lastOp = NoCall
    /\ flip = [i \in Buttons |-> "none"]
    /\ sinceChange = [i \in Buttons |-> 0]
    /\ sinceClick = [i \in Buttons |-> 0]

\* The millisecond clock advances.
PairTick ==
    /\ now < PairMaxTime
    /\ now' = now + 1
    /\ lastCall' = NoRegCall
    /\ UNCHANGED <<begun, state, lastChangeTime, lastClickTime,
                   pin, level, attached, fresh, prevPins>>
    /\ UNCHANGED soloVars
    /\ UNCHANGED otherVars

\* The level of pin p changes.  If button_ISR is attached to the pin it
\* runs and samples the pin of every button.
PinEdge(p) ==
    /\ level' = [level EXCEPT ![p] = ~level[p]]
    /\ fresh' = [i \in PairButtons |-> fresh[i] /\ pin[i] # p]
    /\ UNCHANGED <<now, begun, pin, attached, prevPins>>
    /\ IF p \in attached
       THEN /\ ISR_records(PairButtons, [i \in PairButtons |-> polledDown(i)'])
            /\ lastCall' = [op |-> "isr", pins |-> NullPins, ret |-> FALSE, n |-> 1]
       ELSE /\ UNCHANGED <<state, lastChangeTime, lastClickTime>>
            /\ lastCall' = NoRegCall
    /\ UNCHANGED soloVars
    /\ UNCHANGED otherVars

\* Variant without the stop() of a restart.
StopsFirst_never(buttonPins) == FALSE

\* Variant with the null check after the stop() of a restart.
StopsFirst_beforeNullCheck(buttonPins) == begun

\* if (nullptr == buttonPins) return false;  if (_begun) stop();
\* begin(buttonPins) calls stop() first.
StopsFirst(buttonPins) == buttonPins # NullPins /\ begun

\* begin(buttonPins), for two buttons.
begin_pins(buttonPins) ==
    LET ok == buttonPins # NullPins
        detached == IF StopsFirst(buttonPins) THEN BoundPins ELSE {}
    IN  /\ ok => now + BEGIN_DELAY <= PairMaxTime
        /\ now' = IF ok THEN now + BEGIN_DELAY ELSE now
        /\ pin' = IF ok THEN buttonPins ELSE pin
        /\ attached' = (attached \ detached) \cup (IF ok THEN Bindable(buttonPins) ELSE {})
        /\ state' = IF ok
                    THEN [i \in PairButtons |-> SeedState(level[buttonPins[i]])]
                    ELSE state
        /\ lastChangeTime' = IF ok THEN [i \in PairButtons |-> now'] ELSE lastChangeTime
        /\ lastClickTime' = IF ok THEN [i \in PairButtons |-> now'] ELSE lastClickTime
        /\ begun' = IF ok THEN TRUE ELSE (begun /\ ~StopsFirst(buttonPins))
        /\ fresh' = IF ok THEN [i \in PairButtons |-> TRUE] ELSE fresh
        /\ prevPins' = IF ok THEN (IF begun THEN pin ELSE NullPins) ELSE prevPins
        /\ lastCall' = Called("begin", buttonPins, ok)
        /\ UNCHANGED level
        /\ UNCHANGED soloVars
        /\ UNCHANGED otherVars

\* stop(), for two buttons.
stop_pins ==
    /\ attached' = IF begun THEN attached \ BoundPins ELSE attached
    /\ begun' = FALSE
    /\ lastCall' = Called("stop", NullPins, FALSE)
    /\ UNCHANGED <<now, state, lastChangeTime, lastClickTime, pin, level, fresh, prevPins>>
    /\ UNCHANGED soloVars
    /\ UNCHANGED otherVars

PairNext ==
    \/ PairTick
    \/ \E p \in Pins : PinEdge(p)
    \/ \E buttonPins \in PinLists \cup {NullPins} : begin_pins(buttonPins)
    \/ stop_pins

PairSpec == PairInit /\ [][PairNext]_vars

----------------------------------------------------------------------------
\* Steps of PairSpec, recognised from the call they record.

\* A call of begin with the argument buttonPins.
BeginCall(buttonPins) ==
    /\ lastCall'.op = "begin" /\ lastCall'.pins = buttonPins
    /\ (lastCall' # lastCall \/ now' # now)

\* A call of stop.
StopCall == lastCall'.op = "stop" /\ lastCall' # lastCall

\* A run of button_ISR.
PairIsrRun == lastCall'.op = "isr" /\ level' # level

\* C12: begin on a begun registry seeds every button's state byte from the
\* level its pin has at that moment and sets both timestamps to the clock;
\* and a button_ISR run leaves the state byte of every button whose pin
\* level has not changed since begin sampled it unchanged: no event flag is
\* set and the PRESSED bit keeps its value.
C12_RestartReseeds ==
    [][/\ (begun /\ \E l \in PinLists : BeginCall(l)) =>
            \A i \in PairButtons :
                /\ state'[i] = (IF level[pin'[i]] THEN PRESSED_FLAG ELSE CLEAR_FLAGS)
                /\ lastChangeTime'[i] = now'
                /\ lastClickTime'[i] = now'
       /\ PairIsrRun =>
            \A i \in PairButtons :
                (fresh[i] /\ fresh'[i]) => state'[i] = state[i]]_vars

\* C12 witness: after a restart, button_ISR has just run, later than
\* BUTTON_DEBOUNCE_DELAY after begin, for a button that has been held down
\* since begin sampled it; the button has no event flag.
C12_Witness ==
    /\ lastCall.op = "isr" /\ begun /\ prevPins # NullPins
    /\ \E i \in PairButtons :
            /\ fresh[i] /\ down(i) /\ NoFlags(i)
            /\ now - lastChangeTime[i] > BUTTON_DEBOUNCE_DELAY

\* C13: a begin whose pin list holds a pin that cannot be bound returns
\* false and leaves no pin attached and the registry stopped.
C13_BindingFailureAborts ==
    [][\A l \in PinLists :
        (BeginCall(l) /\ Bindable(l) # {l[i] : i \in PairButtons}) =>
            /\ ~lastCall'.ret
            /\ attached' = {}
            /\ ~begun']_vars

\* C14: a stop leaves the registry stopped with no pin attached; a stop of
\* a stopped registry (a second stop included) changes nothing; and no
\* button_ISR run happens while the registry is stopped.
C14_StopUnbindsAll ==
    [][/\ StopCall =>
            /\ ~begun'
            /\ attached' = {}
            /\ ~begun => UNCHANGED <<now, begun, state, lastChangeTime, lastClickTime,
                                     pin, level, attached>>
       /\ ~begun => ~PairIsrRun]_vars

\* C14 witness: a second stop in a row has returned, after a session that
\* begin had started by restarting with another pin list.
C14_Witness ==
    /\ lastCall.op = "stop" /\ lastCall.n = 2
    /\ ~begun /\ attached = {}
    /\ prevPins # NullPins /\ prevPins # pin

C20_NullBeginChangesNothing ==
    [][/\ BeginCall(NullPins) =>
            /\ ~lastCall'.ret
            /\ UNCHANGED <<now, begun, state, lastChangeTime, lastClickTime,
                           pin, level, attached>>
       /\ (lastCall.op = "begin" /\ lastCall.pins = NullPins
              /\ \E l \in PinLists : BeginCall(l)) =>
            /\ lastCall'.ret
            /\ begun']_vars

\* C20 witness: begin with a null pin list has just returned false on a
\* begun registry, whose pins are still attached.
C20_Witness ==
    /\ lastCall = [op |-> "begin", pins |-> NullPins, ret |-> FALSE, n |-> 1]
    /\ begun /\ attached # {}
    /\ \E i \in PairButtons : ~NoFlags(i)

----------------------------------------------------------------------------
\* C23: no button ever has shortReleased and longReleased set together.
C23_OneReleaseFlag ==
    \A i \in Buttons :
        ~(HasFlag(state[i], SHORT_RELEASED_FLAG) /\ HasFlag(state[i], LONG_RELEASED_FLAG))

\* C23 witness: button_ISR has accepted a long release while an accessor
\* call was between its load and its store, and only longReleased is set.
C23_Witness ==
    \E i \in Buttons :
        /\ begun /\ isrLast[i].kind = "release" /\ lastChangeTime[i] = now
        /\ cons.pc = "loaded" /\ cons.id = i /\ ~call.clean
        /\ HasFlag(state[i], LONG_RELEASED_FLAG)
        /\ ~HasFlag(state[i], SHORT_RELEASED_FLAG)

\* C24: the first press button_ISR accepts after begin does not set
\* doubleClicked.
C24_FirstPressNotDouble ==
    [][\A i \in Buttons :
        (PressAccepted(i) /\ presses[i] = 0) => ~HasFlag(state'[i], DOUBLE_CLICKED_FLAG)]_vars

----------------------------------------------------------------------------
\* Accessors that run atomically: button_ISR runs only while the consumer
\* is between accessor calls.  The clock keeps advancing up to its bound
\* and an accessor call that has started runs to its end; pin changes,
\* begin, stop and the start of an accessor call are up to the environment.

RawEdgeBetweenCalls(p) == cons.pc = "idle" /\ RawEdge(p)

\* The steps that finish an accessor call.
TakeRest == \E i \in Buttons : \E f \in TakeFlags : TakeLoad(i, f) \/ TakeStore(i, f)

AtomicNext ==
    \/ Tick
    \/ \E p \in Buttons : RawEdgeBetweenCalls(p)
    \/ begin
    \/ stop
    \/ \E i \in Buttons : clicked(i)
    \/ \E i \in Buttons : shortReleased(i)
    \/ \E i \in Buttons : longReleased(i)
    \/ \E i \in Buttons : doubleClicked(i)
    \/ \E i \in Buttons : ReadDown(i)
    \/ \E i \in Buttons : ReadUp(i)

AtomicSpec ==
    /\ Init
    /\ [][AtomicNext]_vars
    /\ WF_vars(Tick)
    /\ WF_vars(TakeRest)

\* C22: while the registry is begun, a button whose PRESSED bit differs
\* from the level of its pin eventually has them equal again (or the
\* registry is stopped): the difference never lasts forever, so a level
\* that stops changing is eventually the confirmed state.  Only differences
\* that arise while the clock can still pass BUTTON_DEBOUNCE_DELAY are
\* considered.
C22_StableLevelConfirmed ==
    \A i \in Buttons :
        (begun /\ raw[i] # down(i) /\ now + BUTTON_DEBOUNCE_DELAY < MaxTime)
            ~> (~begun \/ raw[i] = down(i))


-----------------------------------------------------------------------------
\* The older template, buttonsTemplateOld.h, instantiated for two buttons.
\* A button has a confirmed state, a change flag, a long-click flag and the
\* time of its last change.  _begun, the pins and the interrupt bindings are
\* the variables begun, pin, level and attached; the variables of the newer
\* template stay as constructed.

\* static constexpr unsigned long DEBOUNCE_DELAY = 50, scaled.
DEBOUNCE_DELAY == 2

\* The clock of OldSpec stops here.
OldMaxTime == 5

\* The values of the downTime argument of longClicked.
OldDownTimes == {0, 3}

oldFrame == <<state, lastChangeTime, lastClickTime, lastCall, fresh, prevPins,
              single, singleCall>>

Old_down(buttonId) == oldStatus[buttonId].currentState

Old_up(buttonId) == ~Old_down(buttonId)

\* delayedDown(buttonId, downTime)
Old_delayedDown(buttonId, downTime) ==
    Old_down(buttonId) /\ Elapsed(now, oldStatus[buttonId].lastChangeTime) > downTime

\* millis() > lastChangeTime + DEBOUNCE_DELAY, in unsigned long
Old_DebouncePassed(b) == now > (b.lastChangeTime + DEBOUNCE_DELAY) % ClockModulus

\* One round of the loop of button_ISR, on the record b with sample readState.
Old_ISR_button(b, readState) ==
    IF readState # b.currentState
    THEN IF Old_DebouncePassed(b)
         THEN [currentState |-> readState, changeFlag |-> TRUE, longClickFlag |-> TRUE,
               lastChangeTime |-> now]
         ELSE [b EXCEPT !.lastChangeTime = now]
    ELSE b

OldInit ==
    /\ now = 0
    /\ begun = FALSE
    /\ state = [i \in PairButtons |-> 0]
    /\ lastChangeTime = [i \in PairButtons |-> 0]
    /\ lastClickTime = [i \in PairButtons |-> 0]
    /\ pin = NoPins
    /\ level \in [Pins -> BOOLEAN]
    /\ attached = {}
    /\ lastCall = NoRegCall
    /\ fresh = [i \in PairButtons |-> FALSE]
    /\ prevPins = NullPins
    /\ OthersFixed
    /\ raw = [i \in Buttons |-> FALSE]
    /\ cons = Idle
    /\ owed = [i \in Buttons |-> {}]
    /\ pressAt = [i \in Buttons |-> -1]
    /\ presses = [i \in Buttons |-> 0]
    /\ sinceFlip = [i \in Buttons |-> FlipCap]
    /\ isrLast = [i \in Buttons |-> NoRun]
    /\ call = NoLocals
    /\ lastOp = NoCall
    /\ flip = [i \in Buttons |-> "none"]
    /\ sinceChange = [i \in Buttons |-> 0]
    /\ sinceClick = [i \in Buttons |-> 0]

\* The millisecond clock advances.
OldTick ==
    /\ now < OldMaxTime
    /\ now' = now + 1
    /\ UNCHANGED <<begun, pin, level, attached, oldStatus, oldCall>>
    /\ UNCHANGED oldFrame
    /\ UNCHANGED soloVars

\* The level of pin p changes.  If button_ISR is attached to the pin it
\* runs and samples the pin of every button.
Old_button_ISR(p) ==
    /\ level' = [level EXCEPT ![p] = ~level[p]]
    /\ UNCHANGED <<now, begun, pin, attached>>
    /\ IF p \in attached
       THEN /\ oldStatus' = [i \in PairButtons |-> Old_ISR_button(oldStatus[i], level'[pin[i]])]
            /\ oldCall' = [op |-> "isr", id |-> 0, ret |-> FALSE]
       ELSE UNCHANGED <<oldStatus, oldCall>>
    /\ UNCHANGED oldFrame
    /\ UNCHANGED soloVars

\* begin(buttonPins)
Old_begin(buttonPins) ==
    LET ok == buttonPins # NullPins
        detached == IF ok /\ begun THEN BoundPins ELSE {}
    IN  /\ ok => now + BEGIN_DELAY <= OldMaxTime
        /\ now' = IF ok THEN now + BEGIN_DELAY ELSE now
        /\ pin' = IF ok THEN buttonPins ELSE pin
        /\ attached' = (attached \ detached) \cup (IF ok THEN Bindable(buttonPins) ELSE {})
        /\ oldStatus' = IF ok
                        THEN [i \in PairButtons |->
                                 [currentState |-> level[buttonPins[i]],
                                  changeFlag |-> FALSE, longClickFlag |-> FALSE,
                                  lastChangeTime |-> now']]
                        ELSE oldStatus
        /\ begun' = (ok \/ begun)
        /\ oldCall' = [op |-> "begin", id |-> 0, ret |-> ok]
        /\ UNCHANGED level
        /\ UNCHANGED oldFrame
        /\ UNCHANGED soloVars

\* stop()
Old_stop ==
    /\ attached' = IF begun THEN attached \ BoundPins ELSE attached
    /\ begun' = FALSE
    /\ oldCall' = [op |-> "stop", id |-> 0, ret |-> FALSE]
    /\ UNCHANGED <<now, pin, level, oldStatus>>
    /\ UNCHANGED oldFrame
    /\ UNCHANGED soloVars

\* An operation that leaves everything but the button records alone.
OldOp(status, op, buttonId, ret) ==
    /\ oldStatus' = status
    /\ oldCall' = [op |-> op, id |-> buttonId, ret |-> ret]
    /\ UNCHANGED <<now, begun, pin, level, attached>>
    /\ UNCHANGED oldFrame
    /\ UNCHANGED soloVars

\* changeFlag = false
Old_cleared(buttonId) == [oldStatus EXCEPT ![buttonId].changeFlag = FALSE]

\* changed(buttonId, clearChangeFlag): changeFlag &= !clearChangeFlag
Old_changed(buttonId, clearChangeFlag) ==
    OldOp([oldStatus EXCEPT ![buttonId].changeFlag = @ /\ ~clearChangeFlag],
          "changed", buttonId, oldStatus[buttonId].changeFlag)

\* clicked(buttonId, clearChangeFlag): changed(buttonId, clearChangeFlag) && down(buttonId)
Old_clicked_clear(buttonId, clearChangeFlag) ==
    OldOp([oldStatus EXCEPT ![buttonId].changeFlag = @ /\ ~clearChangeFlag],
          "clicked", buttonId, oldStatus[buttonId].changeFlag /\ Old_down(buttonId))

\* clicked(buttonId): clears the change flag only if the button is down,
\* returns the change flag
Old_clicked(buttonId) ==
    OldOp(IF oldStatus[buttonId].changeFlag /\ Old_down(buttonId)
          THEN Old_cleared(buttonId) ELSE oldStatus,
          "clicked", buttonId, oldStatus[buttonId].changeFlag)

\* released(buttonId, clearChangeFlag): changed(buttonId, clearChangeFlag) && !down(buttonId)
Old_released_clear(buttonId, clearChangeFlag) ==
    OldOp([oldStatus EXCEPT ![buttonId].changeFlag = @ /\ ~clearChangeFlag],
          "released", buttonId, oldStatus[buttonId].changeFlag /\ Old_up(buttonId))

\* released(buttonId): clears the change flag only if the button is up,
\* returns the change flag
Old_released(buttonId) ==
    OldOp(IF oldStatus[buttonId].changeFlag /\ Old_up(buttonId)
          THEN Old_cleared(buttonId) ELSE oldStatus,
          "released", buttonId, oldStatus[buttonId].changeFlag)

\* longClicked(buttonId, downTime, clearLongClickFlag)
Old_longClicked(buttonId, downTime, clearLongClickFlag) ==
    IF Old_delayedDown(buttonId, downTime)
    THEN OldOp([oldStatus EXCEPT ![buttonId].longClickFlag = @ /\ ~clearLongClickFlag],
               "longClicked", buttonId, oldStatus[buttonId].longClickFlag)
    ELSE OldOp(oldStatus, "longClicked", buttonId, FALSE)

\* clearChangedFlag(buttonId)
Old_clearChangedFlag(buttonId) ==
    OldOp(Old_cleared(buttonId), "clearChangedFlag", buttonId, FALSE)

\* clearAllChangeFlags(): the loop sets changeFlag = false in every record.
Old_clearAllChangeFlags ==
    OldOp([i \in PairButtons |-> [oldStatus[i] EXCEPT !.changeFlag = FALSE]],
          "clearAllChangeFlags", 0, FALSE)

OldNext ==
    \/ OldTick
    \/ \E p \in Pins : Old_button_ISR(p)
    \/ \E buttonPins \in PinLists \cup {NullPins} : Old_begin(buttonPins)
    \/ Old_stop
    \/ \E i \in PairButtons : \E c \in BOOLEAN : Old_changed(i, c)
    \/ \E i \in PairButtons : \E c \in BOOLEAN : Old_clicked_clear(i, c)
    \/ \E i \in PairButtons : Old_clicked(i)
    \/ \E i \in PairButtons : \E c \in BOOLEAN : Old_released_clear(i, c)
    \/ \E i \in PairButtons : Old_released(i)
    \/ \E i \in PairButtons : \E t \in OldDownTimes : \E c \in BOOLEAN : Old_longClicked(i, t, c)
    \/ \E i \in PairButtons : Old_clearChangedFlag(i)
    \/ Old_clearAllChangeFlags

OldSpec == OldInit /\ [][OldNext]_vars

\* C21: after clearAllChangeFlags, with no run of button_ISR during or after
\* it, changeFlag and longClickFlag are false for every button, and the next
\* changed(i, .) or longClicked(i, t, .) returns false.
C21_ClearAllClearsEveryFlag ==
    [][/\ oldCall'.op = "clearAllChangeFlags" =>
            \A i \in PairButtons :
                ~oldStatus'[i].changeFlag /\ ~oldStatus'[i].longClickFlag
       /\ (/\ oldCall.op = "clearAllChangeFlags"
           /\ oldCall'.op \in {"changed", "longClicked"}) => ~oldCall'.ret]_vars


-----------------------------------------------------------------------------
\* ButtonSingle, src/single: one object for one button.  The class has no
\* constructor, so the fields hold whatever the storage held until begin
\* writes them.  The interrupt is bound to the static buttonISR, whose body is
\* empty: nothing calls button_Handler, and only begin and the accessors
\* write the state byte.

\* The clock of SingleSpec stops here.
SingleMaxTime == 3

\* The pins passed to begin: one that can carry an interrupt, one that cannot.
SinglePins == {2, 4}

\* The values of an uint8_t.
Bytes == 0 .. 255

RELEASED_FLAG == 4
LONG_CLICKED_FLAG == 8

\* a && b, on integers
LogicalAnd(a, b) == a # 0 /\ b # 0

\* state && PRESSED_FLAG
Single_down == LogicalAnd(single.state, PRESSED_FLAG)

\* button_Handler: the confirmed state it compares the sample with,
\* (state && PRESSED_FLAG)
Handler_buttonState == LogicalAnd(single.state, PRESSED_FLAG)

\* No accessor call in the last step; seeded: begin has written the fields.
Uncalled(seeded) == [NoSingleCall EXCEPT !.seeded = seeded]

singleFrame == <<begun, state, lastChangeTime, lastClickTime, pin, lastCall, fresh,
                 prevPins, oldStatus, oldCall>>

SingleInit ==
    /\ now = 0
    /\ begun = FALSE
    /\ state = [i \in PairButtons |-> 0]
    /\ lastChangeTime = [i \in PairButtons |-> 0]
    /\ lastClickTime = [i \in PairButtons |-> 0]
    /\ pin = NoPins
    /\ level \in [Pins -> BOOLEAN]
    /\ \A p \in Pins \ SinglePins : ~level[p]
    /\ attached = {}
    /\ lastCall = NoRegCall
    /\ fresh = [i \in PairButtons |-> FALSE]
    /\ prevPins = NullPins
    /\ oldStatus = [i \in PairButtons |-> OldButton]
    /\ oldCall = NoOldCall
    /\ \E s \in Bytes :
           single = [pin |-> 0, state |-> s, lastChangeTime |-> 0, lastClickTime |-> 0]
    /\ singleCall = NoSingleCall
    /\ raw = [i \in Buttons |-> FALSE]
    /\ cons = Idle
    /\ owed = [i \in Buttons |-> {}]
    /\ pressAt = [i \in Buttons |-> -1]
    /\ presses = [i \in Buttons |-> 0]
    /\ sinceFlip = [i \in Buttons |-> FlipCap]
    /\ isrLast = [i \in Buttons |-> NoRun]
    /\ call = NoLocals
    /\ lastOp = NoCall
    /\ flip = [i \in Buttons |-> "none"]
    /\ sinceChange = [i \in Buttons |-> 0]
    /\ sinceClick = [i \in Buttons |-> 0]

\* The millisecond clock advances.
SingleTick ==
    /\ now < SingleMaxTime
    /\ now' = now + 1
    /\ singleCall' = Uncalled(singleCall.seeded)
    /\ UNCHANGED <<level, attached, single>>
    /\ UNCHANGED singleFrame
    /\ UNCHANGED soloVars

\* The level of pin p changes; if the interrupt is attached, buttonISR()
\* runs, and does nothing.
Single_buttonISR(p) ==
    /\ level' = [level EXCEPT ![p] = ~level[p]]
    /\ singleCall' = Uncalled(singleCall.seeded)
    /\ UNCHANGED <<now, attached, single>>
    /\ UNCHANGED singleFrame
    /\ UNCHANGED soloVars

\* begin(buttonPin)
Single_begin(buttonPin) ==
    /\ now + BEGIN_DELAY <= SingleMaxTime
    /\ now' = now + BEGIN_DELAY
    /\ attached' = attached \cup ({buttonPin} \cap InterruptPins)
    /\ single' = [pin |-> buttonPin,
                  state |-> IF level[buttonPin] THEN PRESSED_FLAG ELSE CLEAR_FLAGS,
                  lastChangeTime |-> now', lastClickTime |-> now']
    /\ singleCall' = Uncalled(TRUE)
    /\ UNCHANGED level
    /\ UNCHANGED singleFrame
    /\ UNCHANGED soloVars

\* stop()
Single_stop ==
    /\ attached' = attached \ {single.pin}
    /\ singleCall' = Uncalled(singleCall.seeded)
    /\ UNCHANGED <<now, level, single>>
    /\ UNCHANGED singleFrame
    /\ UNCHANGED soloVars

\* bool b = state && f;  state &= ~f;  return b;
SingleTake(op, f) ==
    /\ single' = [single EXCEPT !.state = BitClear(@, f)]
    /\ singleCall' = [op |-> op, pre |-> single.state, ret |-> LogicalAnd(single.state, f),
                     seeded |-> singleCall.seeded]
    /\ UNCHANGED <<now, level, attached>>
    /\ UNCHANGED singleFrame
    /\ UNCHANGED soloVars

Single_clicked == SingleTake("clicked", CLICKED_FLAG)

Single_released == SingleTake("released", RELEASED_FLAG)

Single_longClicked == SingleTake("longClicked", LONG_CLICKED_FLAG)

Single_doubleClicked == SingleTake("doubleClicked", DOUBLE_CLICKED_FLAG)

\* down() and up(buttonId)
SingleRead(op, ret) ==
    /\ singleCall' = [op |-> op, pre |-> single.state, ret |-> ret,
                     seeded |-> singleCall.seeded]
    /\ UNCHANGED <<now, level, attached, single>>
    /\ UNCHANGED singleFrame
    /\ UNCHANGED soloVars

Single_ReadDown == SingleRead("down", Single_down)

Single_ReadUp == SingleRead("up", ~Single_down)

SingleNext ==
    \/ SingleTick
    \/ \E p \in SinglePins : Single_buttonISR(p)
    \/ \E buttonPin \in SinglePins : Single_begin(buttonPin)
    \/ Single_stop
    \/ Single_clicked
    \/ Single_released
    \/ Single_longClicked
    \/ Single_doubleClicked
    \/ Single_ReadDown
    \/ Single_ReadUp

SingleSpec == SingleInit /\ [][SingleNext]_vars

\* The bit an accessor of ButtonSingle is named after.
OwnBit(op) ==
    CASE op = "down" -> PRESSED_FLAG
      [] op = "clicked" -> CLICKED_FLAG
      [] op = "released" -> RELEASED_FLAG
      [] op = "longClicked" -> LONG_CLICKED_FLAG
      [] op = "doubleClicked" -> DOUBLE_CLICKED_FLAG

\* C25: for every state byte ButtonSingle reaches once begin has written it,
\* down() and the four flag accessors return true exactly when their own bit
\* was set before the call, and button_Handler takes the button as confirmed
\* pressed exactly when the PRESSED bit is set.
C25_AccessorReportsOwnBit ==
    singleCall.seeded =>
    /\ singleCall.op \in {"down", "clicked", "released", "longClicked", "doubleClicked"} =>
           (singleCall.ret <=> HasFlag(singleCall.pre, OwnBit(singleCall.op)))
    /\ Handler_buttonState <=> HasFlag(single.state, PRESSED_FLAG)

=============================================================================
